---- MODULE Spec2Model ----
(***************************************************************************)
(* Claims orchestration of the AI Claims Orchestrator backend.             *)
(*                                                                         *)
(* The request handlers of backend/main.py run on one asyncio event loop:  *)
(* a handler runs without interruption between two awaits.  The only await *)
(* is the call of orchestrator.process_claim in analyze_claim, so every    *)
(* handler is one atomic step except analyze_claim, which is split at that *)
(* await: the part before it (AnalyzeClaim), the agent calls made by the   *)
(* orchestrator while the handler is suspended (StageAdvance), and the     *)
(* part after it (RunCompletes, RunFails), or no part at all when the      *)
(* suspended task is cancelled (RunCancelled).                             *)
(*                                                                         *)
(* backend/orchestrator.py is not part of the sources at hand: the         *)
(* pipeline inside process_claim is modelled from sections 4.2 and 4.3 of  *)
(* the specification.  main.py builds the orchestrator with no argument    *)
(* and hands process_claim the submission and the claim id only, so the    *)
(* pipeline works on a run-local analysis and claims_db is written by the  *)
(* handlers of main.py alone.                                              *)
(***************************************************************************)
EXTENDS Integers, FiniteSets, Sequences, Bags, TLC

\* Bounds of the model.
MaxClaims == 2
NumReqs == 2
MaxWrites == 5

\* The rejection threshold of the Fraud and Policy gates, in percent.
RejectionThreshold == 70

ClaimIds == 1..MaxClaims
\* The submissions: no handler reads what a submission holds.
Submissions == {"submission"}

VARIABLES
    claims_db,      \* claim_id -> Claim, the dictionary of main.py
    runs,           \* the bag of the calls of analyze_claim suspended at their await
    response,       \* the response the last handler sent
    deterministic,  \* whether the agents are functions of their inputs
    memo            \* claim_id -> stage -> the output the agent gave before

vars == <<claims_db, runs, response, deterministic, memo>>

----------------------------------------------------------------------------
\* ClaimStatus

SUBMITTED == "submitted"
VALIDATING == "validating"
FRAUD_CHECK == "fraud_check"
POLICY_CHECK == "policy_check"
DOCUMENT_ANALYSIS == "document_analysis"
DECISION_PENDING == "decision_pending"
APPROVED == "approved"
REJECTED == "rejected"
NEEDS_INFO == "needs_info"

ClaimStatus ==
    {SUBMITTED, VALIDATING, FRAUD_CHECK, POLICY_CHECK, DOCUMENT_ANALYSIS,
     DECISION_PENDING, APPROVED, REJECTED, NEEDS_INFO}

\* AgentResult: status, confidence (percent) and whether a failure is
\* recoverable.  NoResult is None.
AgentResult(status, confidence, recoverable) ==
    [status |-> status, confidence |-> confidence, recoverable |-> recoverable]

NoResult == AgentResult("none", 0, FALSE)

\* ClaimAnalysis.  NoAnalysis is None.
ClaimAnalysis(id, v, f, p, d, fin, overall) ==
    [claim_id |-> id, validation_result |-> v, fraud_result |-> f,
     policy_result |-> p, document_result |-> d, final_decision |-> fin,
     overall_status |-> overall]

NoAnalysis ==
    ClaimAnalysis(0, NoResult, NoResult, NoResult, NoResult, NoResult, "none")

\* Claim
Claim(id, sub, status, created, updated, analysis) ==
    [claim_id |-> id, submission |-> sub, status |-> status,
     created_at |-> created, updated_at |-> updated, analysis |-> analysis]

----------------------------------------------------------------------------
\* The agents: what a call of the agent of a stage can give.  AgentError is
\* the failure of the agent's external call once its retries are used up.

AgentError == AgentResult("error", 0, FALSE)

Lo == RejectionThreshold - 1
Hi == RejectionThreshold

AgentOutputs(stage) ==
    CASE stage = VALIDATING ->
            {AgentResult("passed", Hi, FALSE), AgentResult("failed", Hi, TRUE),
             AgentResult("failed", Hi, FALSE), AgentError}
      [] stage = FRAUD_CHECK ->
            {AgentResult("passed", Lo, FALSE), AgentResult("failed", Lo, FALSE),
             AgentResult("failed", Hi, FALSE), AgentError}
      [] stage = POLICY_CHECK ->
            {AgentResult("passed", Hi, FALSE), AgentResult("failed", Hi, FALSE),
             AgentError}
      [] stage = DOCUMENT_ANALYSIS ->
            {AgentResult("passed", Hi, FALSE), AgentResult("warning", Hi, FALSE),
             AgentResult("failed", Hi, FALSE), AgentError}
      [] stage = DECISION_PENDING ->
            {AgentResult("passed", Hi, FALSE), AgentResult("failed", Hi, FALSE),
             AgentError}

Stages ==
    {VALIDATING, FRAUD_CHECK, POLICY_CHECK, DOCUMENT_ANALYSIS, DECISION_PENDING}

AllOutputs == UNION {AgentOutputs(stage) : stage \in Stages}

----------------------------------------------------------------------------
\* The status state machine (section 4.2) and the pipeline of process_claim
\* (section 4.3), on the analysis local to one run.  The overall_status of
\* the run's analysis is the status the run has reached.

HardFail(out) ==
    out.status = "failed" /\ out.confidence >= RejectionThreshold

Transition(status, out) ==
    CASE status = VALIDATING ->
            IF out.status \in {"passed", "warning"} THEN FRAUD_CHECK
            ELSE IF out.recoverable THEN NEEDS_INFO
            ELSE REJECTED
      [] status = FRAUD_CHECK ->
            IF HardFail(out) THEN REJECTED ELSE POLICY_CHECK
      [] status = POLICY_CHECK ->
            IF HardFail(out) THEN REJECTED ELSE DOCUMENT_ANALYSIS
      [] status = DOCUMENT_ANALYSIS -> DECISION_PENDING
      [] status = DECISION_PENDING ->
            IF out.status = "passed" THEN APPROVED ELSE REJECTED

\* Retries used up: needs_info, unless the stage is Fraud, Policy or Decision,
\* for which no transition is defined and the run raises OrchestrationError.
HasErrorTransition(status) == status \in {VALIDATING, DOCUMENT_ANALYSIS}

Raises(status, out) == out = AgentError /\ ~HasErrorTransition(status)

Halted(status) == status \in {APPROVED, REJECTED, NEEDS_INFO}

\* The analysis with the result of the stage in its slot.
WithResult(analysis, stage, out) ==
    CASE stage = VALIDATING -> [analysis EXCEPT !.validation_result = out]
      [] stage = FRAUD_CHECK -> [analysis EXCEPT !.fraud_result = out]
      [] stage = POLICY_CHECK -> [analysis EXCEPT !.policy_result = out]
      [] stage = DOCUMENT_ANALYSIS -> [analysis EXCEPT !.document_result = out]
      [] stage = DECISION_PENDING -> [analysis EXCEPT !.final_decision = out]

\* One stage of the pipeline: the agent of the stage the run is at gave out.
AfterStage(analysis, out) ==
    LET stage == analysis.overall_status IN
    IF out = AgentError
    THEN [analysis EXCEPT !.overall_status = NEEDS_INFO]
    ELSE [WithResult(analysis, stage, out) EXCEPT
              !.overall_status = Transition(stage, out)]

\* The analysis a run starts from.
NewAnalysis(id) ==
    ClaimAnalysis(id, NoResult, NoResult, NoResult, NoResult, NoResult,
                  VALIDATING)

----------------------------------------------------------------------------
\* backend/main.py

\* A suspended call of analyze_claim: the claim it holds and the analysis
\* process_claim has built so far.  The claim is named by its key in
\* claims_db, or by NotStored once another record has taken its key: the
\* call then holds an object the dictionary no longer holds.
Run(id, analysis) == [claim_id |-> id, analysis |-> analysis]

NotStored == 0

Detached(id, rr) ==
    IF rr.claim_id = id THEN Run(NotStored, rr.analysis) ELSE rr

\* The runs in flight for a claim, and their number.
RunsOf(id) == {rr \in BagToSet(runs) : rr.claim_id = id}

RECURSIVE Copies(_)
Copies(rrs) ==
    IF rrs = {} THEN 0
    ELSE LET rr == CHOOSE x \in rrs : TRUE
         IN  CopiesIn(rr, runs) + Copies(rrs \ {rr})

NumRunsOf(id) == Copies(RunsOf(id))

\* datetime.now().  Time is kept per claim, as the number of writes of its
\* record: the handlers only store the stamps, none compares them.
Now(claim) == claim.updated_at + 1

\* The bound of the model: the writes of all records together.
RECURSIVE Writes(_)
Writes(ids) ==
    IF ids = {} THEN 0
    ELSE LET id == CHOOSE i \in ids : TRUE
         IN  claims_db[id].updated_at + Writes(ids \ {id})

MayWrite == Writes(DOMAIN claims_db) < MaxWrites

\* What a handler answers: the HTTP code, and the fields of ClaimResponse,
\* ClaimStatusResponse or AnalysisTriggerResponse (message: the status the
\* message names, if it names one; claims: the entries of a list).
Response(op, code, id, status, message, progress, analysis, updated) ==
    [op |-> op, code |-> code, claim_id |-> id, status |-> status,
     message |-> message, progress_percentage |-> progress,
     analysis |-> analysis, updated_at |-> updated, claims |-> << >>]

NoResponse == Response("none", 0, 0, "none", "none", 0, NoAnalysis, 0)

NotFound(op, id) ==
    Response(op, 404, id, "none", "not found", 0, NoAnalysis, 0)

\* The state after the module is loaded, with agents of the given kind.
InitWith(det) ==
    /\ claims_db = << >>
    /\ runs = EmptyBag
    /\ response = NoResponse
    /\ deterministic = det
    /\ memo = [id \in ClaimIds |-> [stage \in Stages |-> NoResult]]

Init == InitWith(FALSE)

\* The agents are functions of their inputs.
InitDet == InitWith(TRUE)

\* submit_claim, when the eight hexadecimal digits kept of uuid4 are those of
\* no claim in claims_db.
SubmitClaim(id, sub) ==
    /\ id \notin DOMAIN claims_db
    /\ MayWrite
    /\ claims_db' = [i \in DOMAIN claims_db \cup {id} |->
                        IF i = id
                        THEN Claim(id, sub, SUBMITTED, 1, 1, NoAnalysis)
                        ELSE claims_db[i]]
    /\ response' = Response("submit", 200, id, SUBMITTED, "submitted", 0,
                            NoAnalysis, 1)
    /\ UNCHANGED <<runs, deterministic, memo>>

\* submit_claim, when the eight digits are those of a claim in claims_db:
\* line 90 stores the new record under the key, in place of the old one.
SubmitCollides(id, sub) ==
    /\ id \in DOMAIN claims_db
    /\ claims_db' = [claims_db EXCEPT
                        ![id] = Claim(id, sub, SUBMITTED, 1, 1, NoAnalysis)]
    /\ runs' = BagOfAll(LAMBDA rr : Detached(id, rr), runs)
    /\ response' = Response("submit", 200, id, SUBMITTED, "submitted", 0,
                            NoAnalysis, 1)
    /\ UNCHANGED <<deterministic, memo>>

status_progress(status) ==
    CASE status = SUBMITTED -> 10
      [] status = VALIDATING -> 20
      [] status = FRAUD_CHECK -> 40
      [] status = POLICY_CHECK -> 60
      [] status = DOCUMENT_ANALYSIS -> 80
      [] status = DECISION_PENDING -> 90
      [] status = APPROVED -> 100
      [] status = REJECTED -> 100
      [] status = NEEDS_INFO -> 50

\* A fault of get_claim_status: the read stamps the record it reads.
GetClaimStatusTouches(id) ==
    /\ \/ /\ id \notin DOMAIN claims_db
          /\ response' = NotFound("status", id)
          /\ UNCHANGED claims_db
       \/ /\ id \in DOMAIN claims_db
          /\ MayWrite
          /\ LET claim == claims_db[id] IN
             response' = Response("status", 200, id, claim.status, "none",
                                  status_progress(claim.status), claim.analysis,
                                  Now(claim))
          /\ claims_db' = [claims_db EXCEPT ![id].updated_at = Now(claims_db[id])]
    /\ UNCHANGED <<runs, deterministic, memo>>

\* get_claim_status
GetClaimStatus(id) ==
    /\ \/ /\ id \notin DOMAIN claims_db
          /\ response' = NotFound("status", id)
       \/ /\ id \in DOMAIN claims_db
          /\ LET claim == claims_db[id] IN
             response' = Response("status", 200, id, claim.status, "none",
                                  status_progress(claim.status), claim.analysis,
                                  claim.updated_at)
    /\ UNCHANGED <<claims_db, runs, deterministic, memo>>

\* list_claims: one entry for each claim in claims_db.
ListEntry(claim) ==
    IF claim.status \in {APPROVED, REJECTED}
    THEN Response("list", 200, claim.claim_id, claim.status, "Complete", 100,
                  claim.analysis, claim.updated_at)
    ELSE Response("list", 200, claim.claim_id, claim.status, "Processing", 50,
                  claim.analysis, claim.updated_at)

ListClaims ==
    /\ response' = [Response("list", 200, 0, "none", "none", 0, NoAnalysis, 0)
                       EXCEPT !.claims = [id \in DOMAIN claims_db |->
                                             ListEntry(claims_db[id])]]
    /\ UNCHANGED <<claims_db, runs, deterministic, memo>>

\* get_analysis_results
GetAnalysisResults(id) ==
    /\ \/ /\ id \notin DOMAIN claims_db
          /\ response' = NotFound("results", id)
       \/ /\ id \in DOMAIN claims_db
          /\ claims_db[id].analysis = NoAnalysis
          /\ response' = Response("results", 200, id, claims_db[id].status,
                                  "Analysis not yet completed", 0, NoAnalysis,
                                  0)
       \/ /\ id \in DOMAIN claims_db
          /\ claims_db[id].analysis # NoAnalysis
          /\ LET claim == claims_db[id] IN
             response' = Response("results", 200, id, claim.status, "none", 0,
                                  claim.analysis, claim.updated_at)
    /\ UNCHANGED <<claims_db, runs, deterministic, memo>>

\* Faults of analyze_claim the properties must tell from it: a guard that
\* lets a rejected claim start again, a start that does not mark the claim
\* or that drops its analysis, a completion that does not store the status
\* or the analysis, and an except clause that does not reset the status.
CanStartUnlessApproved(status) == status \in {SUBMITTED, NEEDS_INFO, REJECTED}

StartedUnmarked(claim, now) == [claim EXCEPT !.updated_at = now]

StartedClearsAnalysis(claim, now) ==
    [claim EXCEPT !.status = VALIDATING, !.updated_at = now,
                  !.analysis = NoAnalysis]

CompletedKeepsStatus(claim, analysis, now) ==
    [claim EXCEPT !.analysis = analysis, !.updated_at = now]

FailedKeepsStatus(claim, now) == [claim EXCEPT !.updated_at = now]

CompletedDropsAnalysis(claim, analysis, now) ==
    [claim EXCEPT !.status = analysis.overall_status, !.updated_at = now]

\* analyze_claim, line 183: the statuses from which an analysis starts.
CanStart(status) == status \in {SUBMITTED, NEEDS_INFO}

\* analyze_claim, lines 192-193.
Started(claim, now) ==
    [claim EXCEPT !.status = VALIDATING, !.updated_at = now]

\* analyze_claim, lines 199-201.
Completed(claim, analysis, now) ==
    [claim EXCEPT !.analysis = analysis, !.status = analysis.overall_status,
                  !.updated_at = now]

\* analyze_claim, lines 209-210.
Failed(claim, now) ==
    [claim EXCEPT !.status = SUBMITTED, !.updated_at = now]

\* A fault of analyze_claim: it starts a run only when no run of any claim is
\* in flight, and answers "skipped" otherwise.
AnalyzeClaimOneAtATime(id) ==
    /\ \/ /\ id \notin DOMAIN claims_db
          /\ response' = NotFound("analyze", id)
          /\ UNCHANGED <<claims_db, runs>>
       \/ /\ id \in DOMAIN claims_db
          /\ ~CanStart(claims_db[id].status) \/ runs # EmptyBag
          /\ response' = Response("analyze", 200, id, "skipped",
                                  "in progress or completed", 0, NoAnalysis, 0)
          /\ UNCHANGED <<claims_db, runs>>
       \/ /\ id \in DOMAIN claims_db
          /\ CanStart(claims_db[id].status)
          /\ runs = EmptyBag
          /\ MayWrite
          /\ claims_db' = [claims_db EXCEPT ![id] = Started(@, Now(@))]
          /\ runs' = runs (+) SetToBag({Run(id, NewAnalysis(id))})
          /\ UNCHANGED response
    /\ UNCHANGED <<deterministic, memo>>

\* analyze_claim up to its await: not found, skipped, or the run starts.
AnalyzeClaim(id) ==
    /\ \/ /\ id \notin DOMAIN claims_db
          /\ response' = NotFound("analyze", id)
          /\ UNCHANGED <<claims_db, runs>>
       \/ /\ id \in DOMAIN claims_db
          /\ ~CanStart(claims_db[id].status)
          /\ response' = Response("analyze", 200, id, "skipped",
                                  "in progress or completed", 0, NoAnalysis, 0)
          /\ UNCHANGED <<claims_db, runs>>
       \/ /\ id \in DOMAIN claims_db
          /\ CanStart(claims_db[id].status)
          /\ BagCardinality(runs) < NumReqs
          /\ MayWrite
          /\ claims_db' = [claims_db EXCEPT ![id] = Started(@, Now(@))]
          /\ runs' = runs (+) SetToBag({Run(id, NewAnalysis(id))})
          /\ UNCHANGED response
    /\ UNCHANGED <<deterministic, memo>>

\* What the agent of the stage run rr is at can give: anything, or, with
\* deterministic agents, what it gave before for the same claim.
AgentGives(rr, out) ==
    LET id == rr.analysis.claim_id
        stage == rr.analysis.overall_status
    IN  /\ out \in AgentOutputs(stage)
        /\ deterministic /\ memo[id][stage] # NoResult => out = memo[id][stage]
        /\ memo' = IF deterministic
                   THEN [memo EXCEPT ![id][stage] = out]
                   ELSE memo

\* An agent returns and the pipeline goes on to its next stage.
StageAdvance(rr, out) ==
    /\ AgentGives(rr, out)
    /\ ~Raises(rr.analysis.overall_status, out)
    /\ ~Halted(AfterStage(rr.analysis, out).overall_status)
    /\ runs' = (runs (-) SetToBag({rr}))
                   (+) SetToBag({Run(rr.claim_id, AfterStage(rr.analysis, out))})
    /\ UNCHANGED <<claims_db, response, deterministic>>

\* An agent returns, the pipeline ends and process_claim returns its analysis:
\* analyze_claim resumes at line 198.
RunCompletes(rr, out) ==
    /\ AgentGives(rr, out)
    /\ ~Raises(rr.analysis.overall_status, out)
    /\ Halted(AfterStage(rr.analysis, out).overall_status)
    /\ MayWrite
    /\ LET id == rr.claim_id
           analysis == AfterStage(rr.analysis, out)
       IN  /\ claims_db' = IF id = NotStored THEN claims_db
                           ELSE [claims_db EXCEPT
                                    ![id] = Completed(@, analysis, Now(@))]
           /\ response' = Response("analyze", 200, analysis.claim_id,
                                   "completed", analysis.overall_status, 0,
                                   NoAnalysis, 0)
    /\ runs' = runs (-) SetToBag({rr})
    /\ UNCHANGED deterministic

\* process_claim raises: analyze_claim resumes in its except clause.
RunFails(rr, out) ==
    /\ AgentGives(rr, out)
    /\ Raises(rr.analysis.overall_status, out)
    /\ MayWrite
    /\ LET id == rr.claim_id IN
           /\ claims_db' = IF id = NotStored THEN claims_db
                           ELSE [claims_db EXCEPT ![id] = Failed(@, Now(@))]
           /\ response' = Response("analyze", 500, rr.analysis.claim_id,
                                   "none", "Analysis failed", 0, NoAnalysis, 0)
    /\ runs' = runs (-) SetToBag({rr})
    /\ UNCHANGED deterministic

\* The task of the request is cancelled at its await: CancelledError is no
\* Exception, the except clause does not run and nothing is written.
RunCancelled(rr) ==
    /\ runs' = runs (-) SetToBag({rr})
    /\ UNCHANGED <<claims_db, response, deterministic, memo>>

Next ==
    \/ \E id \in ClaimIds, sub \in Submissions : SubmitClaim(id, sub)
    \/ \E id \in ClaimIds : GetClaimStatus(id)
    \/ ListClaims
    \/ \E id \in ClaimIds : GetAnalysisResults(id)
    \/ \E id \in ClaimIds : AnalyzeClaim(id)
    \/ \E rr \in BagToSet(runs), out \in AllOutputs : StageAdvance(rr, out)
    \/ \E rr \in BagToSet(runs), out \in AllOutputs : RunCompletes(rr, out)
    \/ \E rr \in BagToSet(runs), out \in AllOutputs : RunFails(rr, out)
    \/ \E rr \in BagToSet(runs) : RunCancelled(rr)

\* The identifiers submit_claim draws do not repeat.
Spec == Init /\ [][Next]_vars

\* The identifiers submit_claim draws may repeat.
NextCollide ==
    \/ Next
    \/ \E id \in ClaimIds, sub \in Submissions : SubmitCollides(id, sub)

SpecCollide == Init /\ [][NextCollide]_vars

SpecDet == InitDet /\ [][Next]_vars

----------------------------------------------------------------------------
\* Steps and states the properties speak of.

Terminal == {APPROVED, REJECTED}

Known == DOMAIN claims_db

\* A run of the claim ends in this step by returning to analyze_claim.
RunReturns(id) ==
    \E rr \in RunsOf(id), out \in AllOutputs :
        RunCompletes(rr, out) \/ RunFails(rr, out)

\* process_claim raises in a run of the claim in this step.
RunRaises(id) ==
    \E rr \in RunsOf(id), out \in AllOutputs : RunFails(rr, out)

\* The answer to the last request was "skipped", for this claim.
Skipped(id) ==
    /\ response.op = "analyze"
    /\ response.status = "skipped"
    /\ response.claim_id = id

----------------------------------------------------------------------------
\* C1: at most one pipeline run is in flight for a claim at any time, and an
\* analyze request on a claim that has a run in flight is answered "skipped"
\* and leaves every claim record and every run as it was.
C1_OneRunPerClaim ==
    [][\A id \in ClaimIds :
          /\ NumRunsOf(id)' <= 1
          /\ NumRunsOf(id) >= 1 /\ AnalyzeClaim(id) =>
                /\ Skipped(id)'
                /\ claims_db' = claims_db
                /\ runs' = runs]_vars

C1_Witness ==
    \E id \in Known : Skipped(id) /\ NumRunsOf(id) = 1

\* C2: approved and rejected are terminal: the status of a claim that is
\* approved or rejected never changes, and an analyze request on it is
\* answered "skipped" and starts no run.
C2_TerminalIsFinal ==
    [][\A id \in Known :
          claims_db[id].status \in Terminal =>
              /\ claims_db'[id].status = claims_db[id].status
              /\ AnalyzeClaim(id) =>
                    Skipped(id)' /\ claims_db' = claims_db /\ runs' = runs]_vars

C2_Witness ==
    \E id \in Known :
        /\ Skipped(id)
        /\ claims_db[id].status \in Terminal
        /\ claims_db[id].analysis.overall_status = claims_db[id].status

\* The edges of the status state machine.
Edges ==
    {<<SUBMITTED, VALIDATING>>, <<NEEDS_INFO, VALIDATING>>,
     <<VALIDATING, FRAUD_CHECK>>, <<VALIDATING, NEEDS_INFO>>,
     <<VALIDATING, REJECTED>>,
     <<FRAUD_CHECK, POLICY_CHECK>>, <<FRAUD_CHECK, REJECTED>>,
     <<POLICY_CHECK, DOCUMENT_ANALYSIS>>, <<POLICY_CHECK, REJECTED>>,
     <<DOCUMENT_ANALYSIS, DECISION_PENDING>>,
     <<DECISION_PENDING, APPROVED>>, <<DECISION_PENDING, REJECTED>>}

\* C3: every change of the stored status of a claim is an edge of the status
\* state machine.
C3_OnlyEdges ==
    [][\A id \in Known :
          claims_db'[id].status # claims_db[id].status =>
              <<claims_db[id].status, claims_db'[id].status>> \in Edges]_vars

C5_NoRunNotInProgress ==
    \A id \in Known :
        NumRunsOf(id) = 0 =>
            claims_db[id].status \in {SUBMITTED, NEEDS_INFO, APPROVED, REJECTED}

\* C6: a reader of the status of a claim that has a run in flight is given
\* the stage the run has reached and the analysis it has built so far.
C6_ReaderSeesStage ==
    [][\A id \in Known :
          GetClaimStatus(id) =>
              \A rr \in RunsOf(id) :
                  /\ response'.status = rr.analysis.overall_status
                  /\ rr.analysis.validation_result # NoResult =>
                        response'.analysis.validation_result
                            = rr.analysis.validation_result]_vars

\* C7: after a run of a claim has returned, completed, halted or failed, the
\* status of a claim that has an analysis is the overall_status of that
\* analysis.
C7_StatusIsOverallStatus ==
    [][\A id \in Known :
          RunReturns(id) /\ claims_db'[id].analysis # NoAnalysis =>
              claims_db'[id].status
                  = claims_db'[id].analysis.overall_status]_vars

\* C8: an analyze request on a claim that is neither approved nor rejected
\* and has no run in flight starts a run: the claim is validating and the
\* request is not answered "skipped".
C8_AcceptedUnlessTerminal ==
    [][\A id \in Known :
          /\ AnalyzeClaim(id)
          /\ claims_db[id].status \notin Terminal
          /\ NumRunsOf(id) = 0
          => /\ claims_db'[id].status = VALIDATING
             /\ NumRunsOf(id)' = 1]_vars

\* C9: a claim whose analysis went through all five stages has the status
\* its analysis gives as overall_status, which is approved if the Decision
\* agent's status is passed and rejected otherwise.
C9_DecisionDecides ==
    \A id \in Known :
        LET analysis == claims_db[id].analysis IN
        analysis.final_decision # NoResult =>
            /\ claims_db[id].status = analysis.overall_status
            /\ analysis.overall_status
                  = IF analysis.final_decision.status = "passed"
                    THEN APPROVED ELSE REJECTED

C9_Witness ==
    \E id \in Known :
        /\ claims_db[id].analysis.final_decision.status = "passed"
        /\ claims_db[id].analysis.document_result.status = "warning"
        /\ claims_db[id].status = APPROVED

\* The status an earlier run of the claim left, read in a state in which a
\* later run is in flight: the overall_status of the analysis it stored, or
\* submitted if it raised.
LeftByEarlierRun(id) ==
    IF claims_db[id].analysis # NoAnalysis
    THEN claims_db[id].analysis.overall_status
    ELSE SUBMITTED

\* The run of the claim in flight is not its first: the record was written
\* by submit_claim, by an earlier run twice, and by this one.
LaterRun(id) == NumRunsOf(id) = 1 /\ claims_db[id].updated_at >= 4

SubmitStep(id) ==
    \E sub \in Submissions : SubmitClaim(id, sub) \/ SubmitCollides(id, sub)

\* C11: a submit creates a record under an identifier no record has yet,
\* with status submitted and no analysis, and no step removes a record or
\* puts another claim's record in its place: a record keeps its identifier,
\* its submission and its creation, and is only ever written later.
C11_FreshIdentifier ==
    [][\A id \in ClaimIds :
          /\ SubmitStep(id) =>
                /\ id \notin Known
                /\ claims_db'[id].status = SUBMITTED
                /\ claims_db'[id].analysis = NoAnalysis
          /\ id \in Known =>
                /\ id \in Known'
                /\ claims_db'[id].claim_id = id
                /\ claims_db'[id].submission = claims_db[id].submission
                /\ claims_db'[id].created_at = claims_db[id].created_at
                /\ claims_db'[id].updated_at >= claims_db[id].updated_at]_vars

\* The stages in the order of the pipeline, and the slot of the analysis
\* that holds the result of a stage.
StageOrder ==
    <<VALIDATING, FRAUD_CHECK, POLICY_CHECK, DOCUMENT_ANALYSIS,
      DECISION_PENDING>>

StageNo(stage) == CHOOSE k \in DOMAIN StageOrder : StageOrder[k] = stage

SlotOf(analysis, k) ==
    CASE k = 1 -> analysis.validation_result
      [] k = 2 -> analysis.fraud_result
      [] k = 3 -> analysis.policy_result
      [] k = 4 -> analysis.document_result
      [] k = 5 -> analysis.final_decision

\* The run is at the stage numbered k.
AtStage(rr, k) == rr.analysis.overall_status = StageOrder[k]

\* C12: in a run the agents are called in the order Validation, Fraud,
\* Policy, Document, Decision: the run waits on the agent of one stage, the
\* analysis that agent is given holds the results of all earlier stages and
\* of none from that stage on, and a claim has at most one run, so no two of
\* its agents run at once.
C12_StagesInOrder ==
    /\ \A id \in ClaimIds : NumRunsOf(id) <= 1
    /\ \A rr \in BagToSet(runs) :
          /\ rr.analysis.overall_status \in Stages
          /\ \A k \in DOMAIN StageOrder :
                SlotOf(rr.analysis, k) # NoResult
                    <=> k < StageNo(rr.analysis.overall_status)

C12_Witness ==
    \E rr \in BagToSet(runs) :
        /\ AtStage(rr, 5)
        /\ \A k \in 1..4 : SlotOf(rr.analysis, k).status \in {"passed", "failed", "warning"}
        /\ claims_db[rr.claim_id].status = VALIDATING

\* The agent of the stage run rr is at returns out in this step.
AgentReturns(rr, out) ==
    StageAdvance(rr, out) \/ RunCompletes(rr, out) \/ RunFails(rr, out)

\* No run of the claim is in flight.
NoRunOf(id) == NumRunsOf(id) = 0

\* C13: when the Fraud agent returns "failed" with a confidence at or above
\* the rejection threshold, the run ends in that step with the claim
\* rejected, and the analysis stored holds no result of the Policy, Document
\* or Decision agent: none of them was called.
C13_FraudHardFailRejects ==
    [][\A rr \in BagToSet(runs), out \in AllOutputs :
          /\ AtStage(rr, 2)
          /\ out.status = "failed"
          /\ out.confidence >= RejectionThreshold
          /\ AgentReturns(rr, out)
          => /\ NoRunOf(rr.claim_id)'
             /\ claims_db'[rr.claim_id].status = REJECTED
             /\ claims_db'[rr.claim_id].analysis.fraud_result = out
             /\ \A k \in 3..5 :
                   SlotOf(claims_db'[rr.claim_id].analysis, k) = NoResult]_vars

C13_Witness ==
    \E id \in Known :
        /\ claims_db[id].status = REJECTED
        /\ HardFail(claims_db[id].analysis.fraud_result)
        /\ claims_db[id].analysis.policy_result = NoResult
        /\ response.op = "analyze" /\ response.message = REJECTED

\* C14: when the Validation agent returns "failed" with a recoverable
\* reason, the run ends in that step with the claim in needs_info, not
\* rejected, and the analysis stored holds the result of Validation and no
\* other: the Fraud agent was not called.
C14_RecoverableNeedsInfo ==
    [][\A rr \in BagToSet(runs), out \in AllOutputs :
          /\ AtStage(rr, 1)
          /\ out.status = "failed"
          /\ out.recoverable
          /\ AgentReturns(rr, out)
          => /\ NoRunOf(rr.claim_id)'
             /\ claims_db'[rr.claim_id].status = NEEDS_INFO
             /\ claims_db'[rr.claim_id].analysis.validation_result = out
             /\ \A k \in 2..5 :
                   SlotOf(claims_db'[rr.claim_id].analysis, k) = NoResult]_vars

C14_Witness ==
    \E id \in Known :
        /\ claims_db[id].status = NEEDS_INFO
        /\ claims_db[id].analysis.validation_result.status = "failed"
        /\ claims_db[id].analysis.validation_result.recoverable
        /\ claims_db[id].analysis.fraud_result = NoResult
        /\ response.op = "analyze" /\ response.message = NEEDS_INFO

\* C15: the Document stage is no gate: when the Document agent returns
\* "passed", "warning" or "failed", the status of the claim moves from
\* document_analysis to decision_pending and the run goes on to the Decision
\* agent, which is given the result of the Document agent.
C15_DocumentNeverGates ==
    [][\A rr \in BagToSet(runs), out \in AllOutputs :
          /\ AtStage(rr, 4)
          /\ out.status \in {"passed", "warning", "failed"}
          /\ AgentReturns(rr, out)
          => /\ claims_db[rr.claim_id].status = DOCUMENT_ANALYSIS
             /\ claims_db'[rr.claim_id].status = DECISION_PENDING
             /\ \E next \in RunsOf(rr.claim_id)' :
                   /\ AtStage(next, 5)
                   /\ next.analysis.document_result = out]_vars

\* A request that names the claim acts in this step: submit_claim, a read,
\* or analyze_claim before or after its await.
RequestOn(id) ==
    \/ SubmitStep(id)
    \/ GetClaimStatus(id)
    \/ GetAnalysisResults(id)
    \/ AnalyzeClaim(id)
    \/ \E rr \in RunsOf(id) :
          RunCancelled(rr) \/ \E out \in AllOutputs : AgentReturns(rr, out)

\* A run of another claim is in flight.
OtherRunInFlight(id) == \E other \in Known \ {id} : NumRunsOf(other) >= 1

\* The record of a claim other than this one changes in this step.
OtherRecordChanges(id) ==
    \E other \in Known \ {id} : claims_db'[other] # claims_db[other]

\* C16: claims are independent: an analyze request on a claim in submitted
\* or needs_info starts its run also while a run of another claim is in
\* flight, and a request on one claim, like list_claims, leaves the record
\* of every other claim as it was: a step that changes the record of
\* another claim is no step of theirs.
C16_ClaimsIndependent ==
    [][\A id \in ClaimIds :
          /\ /\ id \in Known
             /\ CanStart(claims_db[id].status)
             /\ OtherRunInFlight(id)
             /\ AnalyzeClaim(id)
             => /\ claims_db'[id].status = VALIDATING
                /\ NumRunsOf(id)' = 1
                /\ \A other \in Known \ {id} : NumRunsOf(other)' = NumRunsOf(other)
          /\ OtherRecordChanges(id) => ~(RequestOn(id) \/ ListClaims)]_vars

C16_Witness ==
    /\ \A id \in ClaimIds :
          id \in Known /\ NumRunsOf(id) = 1 /\ claims_db[id].status = VALIDATING
    /\ \E rr \in BagToSet(runs) : AtStage(rr, 3)
    /\ \E rr \in BagToSet(runs) : AtStage(rr, 1)

\* A read acts in this step.
ReadStep ==
    \/ ListClaims
    \/ \E id \in ClaimIds : GetClaimStatus(id) \/ GetAnalysisResults(id)

\* C17: an analyze, status or results request that names no claim of
\* claims_db is answered 404 and leaves claims_db and the runs as they were:
\* no record is made and none is changed; and a read (status, list, results)
\* leaves claims_db as it was, whatever the state.
C17_NotFoundAndReadsWriteNothing ==
    [][/\ \A id \in ClaimIds \ Known :
             AnalyzeClaim(id) \/ GetClaimStatus(id) \/ GetAnalysisResults(id)
             => /\ response'.code = 404
                /\ response'.claim_id = id
                /\ claims_db' = claims_db
                /\ runs' = runs
       /\ ReadStep => claims_db' = claims_db /\ runs' = runs]_vars

C17_Witness ==
    /\ response.code = 404
    /\ response.op = "results"
    /\ response.claim_id \notin Known
    /\ \E id \in Known : NumRunsOf(id) = 1 /\ claims_db[id].status = VALIDATING

====
